---- MODULE Spec2Model ----
(***************************************************************************)
(* Clueless Closet (src/script.js): the in-memory wardrobe `app`, its      *)
(* mirror in localStorage, the event handlers that mutate them, and the    *)
(* two async handlers (addItem, bulkImportImages) that suspend on a file   *)
(* read.  One action is one synchronous run of a handler between           *)
(* suspension points.                                                      *)
(***************************************************************************)
EXTENDS Integers, Sequences, FiniteSets, TLC

VARIABLES
    app,            \* the global `app` object (script.js:7-13)
    localStorage,   \* the slot STORAGE_KEY of window.localStorage
    dom,            \* the thumbnails / cards whose click handlers exist
    pending,        \* async handlers suspended on `await fileToBase64(...)`
    clock,          \* Date.now(), a non-decreasing integer
    loaded,         \* has the window 'load' handler run in this session
    saved           \* did the most recent saveToLocalStorage fail; failures so far

vars == <<app, localStorage, dom, pending, clock, loaded, saved>>

----------------------------------------------------------------------------
(* Bounds of the model.                                                    *)

MaxClock   == 2    \* Date.now() ranges over 1..MaxClock
MaxItems   == 2    \* a collection is not grown beyond this length
MaxOutfits == 2    \* savedOutfits is not grown beyond this length
MaxPending == 1    \* handlers suspended on a file read at the same time
MaxFiles   == 2    \* files in one bulk selection
MaxSaveFailures == 1   \* times localStorage.setItem throws

----------------------------------------------------------------------------
(* Program constants.                                                      *)

STORAGE_KEY    == "clueless-closet-wardrobe"
MAX_IMAGE_SIZE == 5 * 1024 * 1024

----------------------------------------------------------------------------
(* JavaScript values.  null and undefined are records so that TLC can      *)
(* compare them with objects (records) and arrays (sequences).             *)

Null      == [null |-> TRUE]
Undefined == [undefined |-> TRUE]

\* `shoppingLink || null`: the empty string is falsy; a kept string is boxed
OrNull(s) == IF s = "" THEN Null ELSE [string |-> s]

\* !x for x an object, null or undefined
Falsy(x) == x = Null \/ x = Undefined

----------------------------------------------------------------------------
(* JSON text, as the tree of its tokens.  "garbage" is a text that is not  *)
(* well-formed JSON.                                                       *)

JGarbage   == [type |-> "garbage"]
JNull      == [type |-> "null"]
JNum(n)    == [type |-> "number", n |-> n]
JStr(s)    == [type |-> "string", s |-> s]
JArr(es)   == [type |-> "array", elements |-> es]
JObj(ms)   == [type |-> "object", members |-> ms]

\* new Date().toISOString(): the text of the clock value
ToISOString(t) == JStr(ToString(t))

StringifyLink(l) == IF l = Null THEN JNull ELSE JStr(l.string)

StringifyGarment(g) ==
    IF g = Null THEN JNull
    ELSE JObj(<< <<"id", JNum(g.id)>>,
                 <<"brand", JStr(g.brand)>>,
                 <<"name", JStr(g.name)>>,
                 <<"image", JStr(g.image)>>,
                 <<"link", StringifyLink(g.link)>>,
                 <<"source", JStr(g.source)>>,
                 <<"uploadedAt", JStr(g.uploadedAt)>> >>)

StringifyOutfit(o) ==
    IF o = Null THEN JNull
    ELSE JObj(<< <<"id", JNum(o.id)>>,
                 <<"top", StringifyGarment(o.top)>>,
                 <<"bottom", StringifyGarment(o.bottom)>> >>)

StringifyGarments(gs) == JArr([i \in 1..Len(gs) |-> StringifyGarment(gs[i])])
StringifyOutfits(os)  == JArr([i \in 1..Len(os) |-> StringifyOutfit(os[i])])

\* the member of an object text named key (the last one, as JSON.parse keeps),
\* or undefined; a text that is no object has no members
Member(json, key) ==
    IF json.type = "object" /\ \E i \in 1..Len(json.members) : json.members[i][1] = key
    THEN LET i == CHOOSE k \in 1..Len(json.members) :
                     /\ json.members[k][1] = key
                     /\ \A m \in (k+1)..Len(json.members) : json.members[m][1] # key
         IN  json.members[i][2]
    ELSE [type |-> "undefined"]

ParseLink(t) == IF t.type = "string" THEN [string |-> t.s] ELSE Null

ParseGarment(t) ==
    IF t.type # "object" THEN Null
    ELSE [id         |-> Member(t, "id").n,
          brand      |-> Member(t, "brand").s,
          name       |-> Member(t, "name").s,
          image      |-> Member(t, "image").s,
          link       |-> ParseLink(Member(t, "link")),
          source     |-> Member(t, "source").s,
          uploadedAt |-> Member(t, "uploadedAt").s]

ParseOutfit(t) ==
    IF t.type # "object" THEN Null
    ELSE [id     |-> Member(t, "id").n,
          top    |-> ParseGarment(Member(t, "top")),
          bottom |-> ParseGarment(Member(t, "bottom"))]

\* `x || []` for x the parsed member t: an array is kept, null and undefined
\* (an absent key) are falsy and give the empty array
GarmentsOrEmpty(t) ==
    IF t.type = "array"
    THEN [i \in 1..Len(t.elements) |-> ParseGarment(t.elements[i])]
    ELSE <<>>

OutfitsOrEmpty(t) ==
    IF t.type = "array"
    THEN [i \in 1..Len(t.elements) |-> ParseOutfit(t.elements[i])]
    ELSE <<>>

\* JSON.parse(text) followed by `x.topwear || []`, `x.bottomwear || []` and
\* `x.savedOutfits || []`: a SyntaxError for a text that is not JSON, a
\* TypeError for reading a property of null
ReadCollections(text) ==
    IF text.type \in {"garbage", "null"}
    THEN [threw |-> TRUE]
    ELSE [threw        |-> FALSE,
          topwear      |-> GarmentsOrEmpty(Member(text, "topwear")),
          bottomwear   |-> GarmentsOrEmpty(Member(text, "bottomwear")),
          savedOutfits |-> OutfitsOrEmpty(Member(text, "savedOutfits"))]

----------------------------------------------------------------------------
(* The in-memory aggregate.                                                *)

EmptyApp ==
    [topwear |-> <<>>, bottomwear |-> <<>>,
     selectedTop |-> Null, selectedBottom |-> Null, savedOutfits |-> <<>>]

Collections(a) ==
    [topwear |-> a.topwear, bottomwear |-> a.bottomwear, savedOutfits |-> a.savedOutfits]

NoCollections == [topwear |-> <<>>, bottomwear |-> <<>>, savedOutfits |-> <<>>]

NoSlot == [present |-> FALSE]

\* the three collections the slot holds; an absent slot holds three empty ones
SlotCollections(ls) ==
    IF ~ls.present THEN NoCollections
    ELSE LET r == ReadCollections(ls.text)
         IN  IF r.threw THEN Undefined
             ELSE [topwear |-> r.topwear, bottomwear |-> r.bottomwear,
                   savedOutfits |-> r.savedOutfits]

----------------------------------------------------------------------------
(* Storage functions.                                                      *)

SaveOutcomes == {"ok", "QuotaExceededError", "Error"}

\* showNotification(message, type), as the toast it shows
Note(message, type) == [message |-> message, type |-> type]
NoNote == Note("", "none")

\* a saveToLocalStorage that, when the write fails, puts the in-memory
\* collections back to what the slot holds (the code does not do this)
saveToLocalStorage_RollsBack(a, ls, now, outcome) ==
    LET data == JObj(<< <<"topwear", StringifyGarments(a.topwear)>>,
                        <<"bottomwear", StringifyGarments(a.bottomwear)>>,
                        <<"savedOutfits", StringifyOutfits(a.savedOutfits)>>,
                        <<"savedAt", ToISOString(now)>> >>)
        back == IF ~ls.present THEN [a EXCEPT !.topwear = <<>>, !.bottomwear = <<>>,
                                              !.savedOutfits = <<>>]
                ELSE [a EXCEPT !.topwear      = ReadCollections(ls.text).topwear,
                               !.bottomwear   = ReadCollections(ls.text).bottomwear,
                               !.savedOutfits = ReadCollections(ls.text).savedOutfits]
    IN  [app  |-> IF outcome = "ok" THEN a ELSE back,
         slot |-> IF outcome = "ok" THEN [present |-> TRUE, text |-> data] ELSE ls,
         note |-> IF outcome = "ok" THEN NoNote ELSE Note("Error saving data", "error")]

\* saveToLocalStorage(): `outcome` is what localStorage.setItem does.  The
\* result is the in-memory aggregate after the call, the slot after the call
\* and the toast of the catch block, if it ran.
saveToLocalStorage(a, ls, now, outcome) ==
    LET data == JObj(<< <<"topwear", StringifyGarments(a.topwear)>>,
                        <<"bottomwear", StringifyGarments(a.bottomwear)>>,
                        <<"savedOutfits", StringifyOutfits(a.savedOutfits)>>,
                        <<"savedAt", ToISOString(now)>> >>)
    IN  [app  |-> a,
         slot |-> IF outcome = "ok" THEN [present |-> TRUE, text |-> data] ELSE ls,
         note |-> CASE outcome = "ok" -> NoNote
                    [] outcome = "QuotaExceededError" ->
                         Note("Storage limit exceeded! Delete some items to free up space.",
                              "error")
                    [] OTHER -> Note("Error saving data", "error")]

\* a loadFromLocalStorage that does not restore savedOutfits (the code does)
loadFromLocalStorage_DropsOutfits(a, ls) ==
    IF ~ls.present
    THEN [app |-> a, ret |-> FALSE, note |-> NoNote]
    ELSE LET r == ReadCollections(ls.text)
         IN  IF r.threw
             THEN [app |-> a, ret |-> FALSE, note |-> Note("Error loading saved data", "error")]
             ELSE [app  |-> [a EXCEPT !.topwear    = r.topwear,
                                      !.bottomwear = r.bottomwear],
                   ret  |-> TRUE,
                   note |-> NoNote]

\* loadFromLocalStorage(): the aggregate after the call, the value returned
\* and the toast of the catch block, if it ran
loadFromLocalStorage(a, ls) ==
    IF ~ls.present
    THEN [app |-> a, ret |-> FALSE, note |-> NoNote]
    ELSE LET r == ReadCollections(ls.text)
         IN  IF r.threw
             THEN [app |-> a, ret |-> FALSE, note |-> Note("Error loading saved data", "error")]
             ELSE [app  |-> [a EXCEPT !.topwear      = r.topwear,
                                      !.bottomwear   = r.bottomwear,
                                      !.savedOutfits = r.savedOutfits],
                   ret  |-> TRUE,
                   note |-> NoNote]

\* what is remembered of the save attempts: whether the most recent one
\* failed, and how many have failed
AfterSave(outcome, before) ==
    [failed   |-> outcome # "ok",
     failures |-> before.failures + (IF outcome = "ok" THEN 0 ELSE 1)]

\* the outcomes setItem can have, within the bound on failures
Outcomes(before) ==
    IF before.failures < MaxSaveFailures THEN SaveOutcomes ELSE {"ok"}

NoSave == [failed |-> FALSE, failures |-> 0]

----------------------------------------------------------------------------
(* Rendering: which thumbnails and cards exist afterwards, and whether the *)
(* rendering threw (reading a property of a null element).                 *)

\* the elements a forEach has visited before its callback first throws
PrefixBefore(s, bad) ==
    IF bad = {} THEN s
    ELSE SubSeq(s, 1, (CHOOSE i \in bad : \A j \in bad : i <= j) - 1)

NullAt(s) == {i \in 1..Len(s) : s[i] = Null}

BadOutfit(o) == o = Null \/ o.top = Null \/ o.bottom = Null
BadOutfitAt(s) == {i \in 1..Len(s) : BadOutfit(s[i])}

EmptyDom == [topwearGrid |-> <<>>, bottomwearGrid |-> <<>>, savedOutfitsGrid |-> <<>>]

renderTopwear(a, d) ==
    [dom   |-> [d EXCEPT !.topwearGrid = PrefixBefore(a.topwear, NullAt(a.topwear))],
     threw |-> NullAt(a.topwear) # {}]

renderBottomwear(a, d) ==
    [dom   |-> [d EXCEPT !.bottomwearGrid = PrefixBefore(a.bottomwear, NullAt(a.bottomwear))],
     threw |-> NullAt(a.bottomwear) # {}]

renderOutfit(a, d) ==
    IF Falsy(a.selectedTop) \/ Falsy(a.selectedBottom)
    THEN [dom |-> d, threw |-> FALSE]
    ELSE LET t == renderTopwear(a, d)
         IN  IF t.threw THEN t ELSE renderBottomwear(a, t.dom)

renderSavedOutfits(a, d) ==
    [dom   |-> [d EXCEPT !.savedOutfitsGrid = PrefixBefore(a.savedOutfits, BadOutfitAt(a.savedOutfits))],
     threw |-> BadOutfitAt(a.savedOutfits) # {}]

renderUI(a, d) ==
    LET t == renderTopwear(a, d) IN
    IF t.threw THEN t ELSE
    LET b == renderBottomwear(a, t.dom) IN
    IF b.threw THEN b ELSE
    LET o == renderOutfit(a, b.dom) IN
    IF o.threw THEN o ELSE
    renderSavedOutfits(a, o.dom)

----------------------------------------------------------------------------
(* Image files, as the file picker hands them over.  file.name is kept as  *)
(* its dot-separated parts.                                                *)

Jpeg == [name |-> <<"tee", "jpg">>, type |-> "image/jpeg", size |-> 1000]
Gif  == [name |-> <<"anim", "gif">>, type |-> "image/gif", size |-> 1000]
Big  == [name |-> <<"poster", "png">>, type |-> "image/png", size |-> MAX_IMAGE_SIZE + 1]

NoFile == [name |-> <<>>, type |-> "", size |-> 0]

ImageFiles == {Jpeg, Gif, Big}

\* the contents of the add-item form
Forms ==
    {[imageFile |-> Jpeg, brand |-> "Zara", productName |-> "Tee",
      shoppingLink |-> "https://shop.example/tee"],
     [imageFile |-> Gif, brand |-> "Zara", productName |-> "Tee", shoppingLink |-> ""],
     [imageFile |-> Big, brand |-> "Zara", productName |-> "Tee", shoppingLink |-> ""],
     [imageFile |-> NoFile, brand |-> "Zara", productName |-> "Tee", shoppingLink |-> ""],
     [imageFile |-> Jpeg, brand |-> "", productName |-> "Tee", shoppingLink |-> ""]}

Categories == {"topwear", "bottomwear"}

validTypes == {"image/jpeg", "image/png"}

\* validateImageFile(file): the value returned
validateImageFile(file) ==
    IF file.type \notin validTypes THEN FALSE
    ELSE IF file.size > MAX_IMAGE_SIZE THEN FALSE
    ELSE TRUE

\* reader.result of readAsDataURL: the data URI of the file
fileToBase64(file) == "data:" \o file.type \o ";base64," \o file.name[1]

\* app[category].push(item)
Push(a, category, item) ==
    IF category = "topwear"
    THEN [a EXCEPT !.topwear = Append(@, item)]
    ELSE [a EXCEPT !.bottomwear = Append(@, item)]

Target(a, category) == IF category = "topwear" THEN a.topwear ELSE a.bottomwear
Other(a, category)  == IF category = "topwear" THEN a.bottomwear ELSE a.topwear

----------------------------------------------------------------------------
(* The files the import dialog can be given.                               *)

OldTop ==
    [id |-> -1, brand |-> "Zara", name |-> "Tee", image |-> fileToBase64(Jpeg),
     link |-> [string |-> "https://shop.example/tee"], source |-> "local",
     uploadedAt |-> ToString(-1)]

OldShirt ==
    [id |-> 0, brand |-> "Imported", name |-> "shirt", image |-> fileToBase64(Jpeg),
     link |-> Null, source |-> "local", uploadedAt |-> ToString(0)]

OldBottom ==
    [id |-> 0, brand |-> "Imported", name |-> "jeans", image |-> fileToBase64(Jpeg),
     link |-> Null, source |-> "local", uploadedAt |-> ToString(0)]

BackupApp ==
    [EmptyApp EXCEPT !.topwear = <<OldTop, OldShirt>>,
                     !.bottomwear = <<OldBottom>>,
                     !.savedOutfits = <<[id |-> 0, top |-> OldTop, bottom |-> OldBottom]>>]

\* exportWardrobe(): the text of the downloaded backup
exportWardrobe(a, now) ==
    JObj(<< <<"topwear", StringifyGarments(a.topwear)>>,
            <<"bottomwear", StringifyGarments(a.bottomwear)>>,
            <<"savedOutfits", StringifyOutfits(a.savedOutfits)>>,
            <<"exportDate", ToISOString(now)>> >>)

ImportFiles ==
    {JGarbage,                                     \* not JSON
     JNull,                                        \* null
     JArr(<<>>),                                   \* []
     exportWardrobe(BackupApp, 0),                 \* a backup of an earlier session
     JObj(<< <<"topwear", JArr(<<JNull>>)>> >>)}  \* {"topwear":[null]}

----------------------------------------------------------------------------
(* Suspended async handlers.  A task is the closure of a handler that is   *)
(* awaiting fileToBase64(file): n is files.length, i the 1-based position  *)
(* of `file` in it (the source's i is i - 1).  The files after position i  *)
(* are drawn when the loop reaches them.  made lists the garments this run *)
(* has pushed; preClear tells that a confirmed clearAllData ran while the  *)
(* handler was suspended.                                                  *)

Task(op, category, file, n, i, sc, fc, form, made, preClear) ==
    [op |-> op, category |-> category, file |-> file, n |-> n, i |-> i,
     successCount |-> sc, failCount |-> fc,
     brand |-> form.brand, productName |-> form.productName,
     shoppingLink |-> form.shoppingLink, made |-> made, preClear |-> preClear]

NoForm == [brand |-> "", productName |-> "", shoppingLink |-> ""]

RemoveAt(seq, k) == SubSeq(seq, 1, k - 1) \o SubSeq(seq, k + 1, Len(seq))

\* what a handler run leaves: the aggregate, the slot, the thumbnails and
\* cards, and the toast it showed last
Outcome(a, ls, d, note) == [app |-> a, slot |-> ls, dom |-> d, note |-> note]

\* the same tail without the call of saveToLocalStorage() (the code has it)
SaveAndRender_NoSave(a1, ls, d, now, outcome, okNote, errNote) ==
    Outcome(a1, ls, renderUI(a1, d).dom, IF renderUI(a1, d).threw THEN errNote ELSE okNote)

\* saveToLocalStorage(); showNotification(okNote); renderUI() in a try block
\* whose catch shows errNote
SaveAndRender(a1, ls, d, now, outcome, okNote, errNote) ==
    LET s == saveToLocalStorage(a1, ls, now, outcome)
        r == renderUI(s.app, d)
    IN  Outcome(s.app, s.slot, r.dom, IF r.threw THEN errNote ELSE okNote)

----------------------------------------------------------------------------
(* Initial state: the script has run (app is constructed, listeners are    *)
(* attached), the window 'load' event has not fired yet.                   *)

Init ==
    /\ app = EmptyApp
    /\ localStorage = NoSlot
    /\ dom = EmptyDom
    /\ pending = <<>>
    /\ clock = 1
    /\ loaded = FALSE
    /\ saved = NoSave

\* window 'load' listener (script.js:636-641)
WindowLoad ==
    /\ ~loaded
    /\ app' = loadFromLocalStorage(app, localStorage).app
    /\ dom' = renderUI(loadFromLocalStorage(app, localStorage).app, dom).dom
    /\ loaded' = TRUE
    /\ UNCHANGED <<localStorage, pending, clock, saved>>

\* the page is closed and opened again: a fresh session over the same slot
Reload ==
    /\ loaded
    /\ app' = EmptyApp
    /\ dom' = EmptyDom
    /\ pending' = <<>>
    /\ loaded' = FALSE
    /\ UNCHANGED <<localStorage, clock, saved>>

\* time passes
Tick ==
    /\ clock < MaxClock
    /\ clock' = clock + 1
    /\ UNCHANGED <<app, localStorage, dom, pending, loaded, saved>>

----------------------------------------------------------------------------
(* addItem (script.js:209-257)                                             *)

\* the checks before `await fileToBase64(imageFile)`: does the handler go on
addItemAccepts(form) ==
    IF form.imageFile = NoFile \/ form.brand = "" \/ form.productName = ""
    THEN FALSE
    ELSE validateImageFile(form.imageFile)

\* the run up to the await
StartAddItem ==
    /\ loaded
    /\ \E form \in Forms, category \in Categories :
         /\ addItemAccepts(form)
         /\ Len(pending) < MaxPending
         /\ pending' = Append(pending,
                Task("addItem", category, form.imageFile, 1, 1, 0, 0, form, <<>>, FALSE))
    /\ UNCHANGED <<app, localStorage, dom, clock, loaded, saved>>

addItemId(now) == now

\* the garment addItem builds
addItemGarment(t, now) ==
    [id |-> addItemId(now), brand |-> t.brand, name |-> t.productName,
     image |-> fileToBase64(t.file), link |-> OrNull(t.shoppingLink),
     source |-> "local", uploadedAt |-> ToString(now)]

\* the run after the read has settled; `read` is whether reader.onload fired
addItemResume(a, ls, d, now, t, read, outcome) ==
    IF read
    THEN SaveAndRender(Push(a, t.category, addItemGarment(t, now)), ls, d, now, outcome,
                       Note("Item added successfully!", "success"),
                       Note("Error processing image", "error"))
    ELSE Outcome(a, ls, d, Note("Error processing image", "error"))

FinishAddItem ==
    /\ loaded
    /\ \E k \in 1..Len(pending), read \in BOOLEAN :
         /\ pending[k].op = "addItem"
         /\ pending' = RemoveAt(pending, k)
         /\ IF read
            THEN /\ Len(Target(app, pending[k].category)) < MaxItems
                 /\ \E outcome \in Outcomes(saved) :
                      LET r == addItemResume(app, localStorage, dom, clock,
                                             pending[k], TRUE, outcome)
                      IN  /\ app' = r.app
                          /\ localStorage' = r.slot
                          /\ dom' = r.dom
                          /\ saved' = AfterSave(outcome, saved)
            ELSE LET r == addItemResume(app, localStorage, dom, clock,
                                        pending[k], FALSE, "ok")
                 IN  /\ app' = r.app
                     /\ localStorage' = r.slot
                     /\ dom' = r.dom
                     /\ UNCHANGED saved
    /\ UNCHANGED <<clock, loaded>>

----------------------------------------------------------------------------
(* bulkImportImages (script.js:262-325)                                    *)

\* the position of the first file of `files` that passes validation,
\* Len(files) + 1 when there is none: the loop `continue`s over the others
NextValid(files) ==
    LET valid == {k \in 1..Len(files) : validateImageFile(files[k])}
    IN  IF valid = {} THEN Len(files) + 1
        ELSE CHOOSE k \in valid : \A m \in valid : k <= m

\* the files the loop can meet from a position with `left` files to go
\* until it awaits the next read or leaves the loop: files failing
\* validation, then a file passing it unless the list ends first
Segments(left) ==
    {seg \in UNION {[1..m -> ImageFiles] : m \in 0..left} :
        \/ Len(seg) > 0 /\ NextValid(seg) = Len(seg)
        \/ Len(seg) = left /\ NextValid(seg) = Len(seg) + 1}

\* an id without the positional offset (the code adds i)
bulkItemId_NoOffset(now, i) == now

bulkItemId(now, i) == now + i

\* the garment bulkImportImages builds for the file at (1-based) position i
bulkGarment(file, i, now) ==
    [id |-> bulkItemId(now, i - 1), brand |-> "Imported", name |-> file.name[1],
     image |-> fileToBase64(file), link |-> Null, source |-> "local",
     uploadedAt |-> ToString(now)]

\* a closing toast that reports no failures (the code reports failCount)
bulkMessage_NoFailures(sc, fc) ==
    [message   |-> "Successfully imported",
     type      |-> "success",
     succeeded |-> sc,
     failed    |-> 0]

\* the toast at the end of the batch
bulkMessage(sc, fc) ==
    [message   |-> IF fc > 0 THEN "Imported (some failed)" ELSE "Successfully imported",
     type      |-> "success",
     succeeded |-> sc,
     failed    |-> fc]

\* One pass of the loop body for the file whose read has settled (none when
\* the handler has just started: t.i = 0), then the loop over the files seg
\* up to the next await or the end of the list.  The result tells whether the
\* handler suspends again (and as which task), the aggregate, and the counters.
bulkLoop(a, t, read, seg, now) ==
    LET start == t.i = 0
        a1    == IF ~start /\ read THEN Push(a, t.category, bulkGarment(t.file, t.i, now))
                 ELSE a
        sc    == t.successCount + (IF ~start /\ read THEN 1 ELSE 0)
        fc    == t.failCount + (IF ~start /\ ~read THEN 1 ELSE 0) + (NextValid(seg) - 1)
        made  == IF ~start /\ read THEN Append(t.made, bulkGarment(t.file, t.i, now)) ELSE t.made
        next  == t.i + NextValid(seg)
    IN  [suspends     |-> next <= t.n,
         task         |-> [t EXCEPT !.file = IF next <= t.n THEN seg[Len(seg)] ELSE NoFile,
                                    !.i = next, !.successCount = sc, !.failCount = fc,
                                    !.made = made],
         app          |-> a1,
         successCount |-> sc,
         failCount    |-> fc]

\* after the loop: saveToLocalStorage(), the toast, renderUI()
bulkFinish(b, ls, d, now, outcome) ==
    SaveAndRender(b.app, ls, d, now, outcome,
                  bulkMessage(b.successCount, b.failCount),
                  Note("Error during bulk import", "error"))

\* a run of the handler, as pending entry k (a new entry when k = 0)
BulkRun(t, read, seg, k) ==
    LET b == bulkLoop(app, t, read, seg, clock)
    IN  IF b.suspends
        THEN /\ IF k = 0
                THEN Len(pending) < MaxPending /\ pending' = Append(pending, b.task)
                ELSE pending' = [pending EXCEPT ![k] = b.task]
             /\ app' = b.app
             /\ UNCHANGED <<localStorage, dom, saved>>
        ELSE /\ pending' = IF k = 0 THEN pending ELSE RemoveAt(pending, k)
             /\ \E outcome \in Outcomes(saved) :
                  LET r == bulkFinish(b, localStorage, dom, clock, outcome)
                  IN  /\ app' = r.app
                      /\ localStorage' = r.slot
                      /\ dom' = r.dom
                      /\ saved' = AfterSave(outcome, saved)

\* the run up to the first `await fileToBase64(file)`
StartBulkImport ==
    /\ loaded
    /\ \E n \in 1..MaxFiles, category \in Categories, seg \in Segments(MaxFiles) :
         /\ Len(seg) <= n
         /\ seg \in Segments(n)
         /\ BulkRun(Task("bulkImportImages", category, NoFile, n, 0, 0, 0,
                         NoForm, <<>>, FALSE),
                    FALSE, seg, 0)
    /\ UNCHANGED <<clock, loaded>>

\* the run after the read of file i has settled, up to the next await;
\* `read` is whether reader.onload fired
ContinueBulkImport ==
    /\ loaded
    /\ \E k \in 1..Len(pending), read \in BOOLEAN :
         /\ pending[k].op = "bulkImportImages"
         /\ read => Len(Target(app, pending[k].category)) < MaxItems
         /\ \E seg \in Segments(pending[k].n - pending[k].i) :
              BulkRun(pending[k], read, seg, k)
    /\ UNCHANGED <<clock, loaded>>

----------------------------------------------------------------------------
(* Selection (script.js:463-466, 488-491, 330-339, 374-381)                *)

\* the click on a topwear thumbnail
SelectTop ==
    /\ loaded
    /\ \E c \in 1..Len(dom.topwearGrid) :
         LET a1 == [app EXCEPT !.selectedTop = dom.topwearGrid[c]]
         IN  app' = a1 /\ dom' = renderOutfit(a1, dom).dom
    /\ UNCHANGED <<localStorage, pending, clock, loaded, saved>>

\* the click on a bottomwear thumbnail
SelectBottom ==
    /\ loaded
    /\ \E c \in 1..Len(dom.bottomwearGrid) :
         LET a1 == [app EXCEPT !.selectedBottom = dom.bottomwearGrid[c]]
         IN  app' = a1 /\ dom' = renderOutfit(a1, dom).dom
    /\ UNCHANGED <<localStorage, pending, clock, loaded, saved>>

\* a shuffle that assigns selectedTop only (the code assigns both)
shuffleOutfit_TopOnly(a, i, j) ==
    IF Len(a.topwear) = 0 \/ Len(a.bottomwear) = 0
    THEN a
    ELSE [a EXCEPT !.selectedTop = a.topwear[i]]

\* shuffleOutfit(): the aggregate after the call; i and j are the elements
\* the two draws of Math.random() index
shuffleOutfit(a, i, j) ==
    IF Len(a.topwear) = 0 \/ Len(a.bottomwear) = 0
    THEN a
    ELSE [a EXCEPT !.selectedTop = a.topwear[i], !.selectedBottom = a.bottomwear[j]]

\* the draws Math.floor(Math.random() * length) can give, as 1-based positions
Draws(s) == IF Len(s) = 0 THEN {1} ELSE 1..Len(s)

ShuffleOutfit ==
    /\ loaded
    /\ \E i \in Draws(app.topwear), j \in Draws(app.bottomwear) :
         LET a1 == shuffleOutfit(app, i, j)
         IN  /\ app' = a1
             /\ dom' = IF Len(app.topwear) = 0 \/ Len(app.bottomwear) = 0 THEN dom
                       ELSE renderOutfit(a1, dom).dom
    /\ UNCHANGED <<localStorage, pending, clock, loaded, saved>>

\* the positions of the outfits with the given id
OutfitsWithId(a, outfitId) ==
    {n \in 1..Len(a.savedOutfits) : a.savedOutfits[n].id = outfitId}

\* loadSavedOutfit(outfitId): the aggregate after the call
loadSavedOutfit(a, outfitId) ==
    LET found == OutfitsWithId(a, outfitId)
    IN  IF found = {} THEN a
        ELSE LET outfit == a.savedOutfits[CHOOSE n \in found : \A m \in found : n <= m]
             IN  [a EXCEPT !.selectedTop = outfit.top, !.selectedBottom = outfit.bottom]

\* the click on a saved-outfit card
LoadSavedOutfit ==
    /\ loaded
    /\ \E c \in 1..Len(dom.savedOutfitsGrid) :
         LET outfitId == dom.savedOutfitsGrid[c].id
             a1 == loadSavedOutfit(app, outfitId)
         IN  /\ app' = a1
             /\ dom' = IF OutfitsWithId(app, outfitId) = {} THEN dom
                       ELSE renderOutfit(a1, dom).dom
    /\ UNCHANGED <<localStorage, pending, clock, loaded, saved>>

----------------------------------------------------------------------------
(* Saved outfits (script.js:344-369)                                       *)

\* the outfit saveOutfit() builds
NewOutfit(a, now) == [id |-> now, top |-> a.selectedTop, bottom |-> a.selectedBottom]

\* a guard that looks at selectedTop only (the code looks at both)
saveOutfitRefuses_TopOnly(a) == Falsy(a.selectedTop)

\* does saveOutfit() return at its guard
saveOutfitRefuses(a) == Falsy(a.selectedTop) \/ Falsy(a.selectedBottom)

\* saveOutfit(): a whole run of the handler
saveOutfit(a, ls, d, now, outcome) ==
    IF saveOutfitRefuses(a)
    THEN Outcome(a, ls, d, Note("Please select a complete outfit first", "error"))
    ELSE SaveAndRender([a EXCEPT !.savedOutfits = Append(@, NewOutfit(a, now))],
                       ls, d, now, outcome,
                       Note("Outfit saved!", "success"), Note("Outfit saved!", "success"))

SaveOutfit ==
    /\ loaded
    /\ IF saveOutfitRefuses(app)
       THEN LET r == saveOutfit(app, localStorage, dom, clock, "ok")
            IN  /\ app' = r.app
                /\ localStorage' = r.slot
                /\ dom' = r.dom
                /\ UNCHANGED saved
       ELSE /\ Len(app.savedOutfits) < MaxOutfits
            /\ \E outcome \in Outcomes(saved) :
                 LET r == saveOutfit(app, localStorage, dom, clock, outcome)
                 IN  /\ app' = r.app
                     /\ localStorage' = r.slot
                     /\ dom' = r.dom
                     /\ saved' = AfterSave(outcome, saved)
    /\ UNCHANGED <<pending, clock, loaded>>

\* removeOutfit(outfitId): a whole run of the handler
removeOutfit(a, ls, d, now, outfitId, outcome) ==
    LET a1 == [a EXCEPT !.savedOutfits = SelectSeq(@, LAMBDA o : o.id # outfitId)]
        s  == saveToLocalStorage(a1, ls, now, outcome)
    IN  Outcome(s.app, s.slot, renderUI(s.app, d).dom, s.note)

\* the click on the remove button of a saved-outfit card
RemoveOutfit ==
    /\ loaded
    /\ \E c \in 1..Len(dom.savedOutfitsGrid), outcome \in Outcomes(saved) :
         LET r == removeOutfit(app, localStorage, dom, clock,
                               dom.savedOutfitsGrid[c].id, outcome)
         IN  /\ app' = r.app
             /\ localStorage' = r.slot
             /\ dom' = r.dom
             /\ saved' = AfterSave(outcome, saved)
    /\ UNCHANGED <<pending, clock, loaded>>

----------------------------------------------------------------------------
(* clearAllData (script.js:90-101); `confirmed` is what confirm() returns  *)

\* localStorage.removeItem(STORAGE_KEY)
removeItem(ls) == NoSlot

\* a clearAllData that leaves the selections (the code resets them)
clearAllData_KeepsSelection(a, ls, d, confirmed) ==
    IF confirmed
    THEN LET a1 == [a EXCEPT !.topwear = <<>>, !.bottomwear = <<>>, !.savedOutfits = <<>>]
         IN  Outcome(a1, NoSlot, renderUI(a1, d).dom, Note("All data cleared", "success"))
    ELSE Outcome(a, ls, d, NoNote)

\* clearAllData(): a whole run of the handler
clearAllData(a, ls, d, confirmed) ==
    IF confirmed
    THEN LET a1 == [a EXCEPT !.topwear = <<>>, !.bottomwear = <<>>, !.savedOutfits = <<>>,
                             !.selectedTop = Null, !.selectedBottom = Null]
         IN  Outcome(a1, removeItem(ls), renderUI(a1, d).dom,
                     Note("All data cleared", "success"))
    ELSE Outcome(a, ls, d, NoNote)

ClearAllData ==
    /\ loaded
    /\ \E confirmed \in BOOLEAN :
         LET r == clearAllData(app, localStorage, dom, confirmed)
         IN  /\ app' = r.app
             /\ localStorage' = r.slot
             /\ dom' = r.dom
             /\ pending' = IF confirmed
                           THEN [k \in 1..Len(pending) |->
                                    [pending[k] EXCEPT !.preClear = TRUE]]
                           ELSE pending
    /\ UNCHANGED <<clock, loaded, saved>>

----------------------------------------------------------------------------
(* importWardrobe (script.js:407-432): reader.onload with the file's text  *)

\* reader.onload: a whole run of the callback
importWardrobe(a, ls, d, now, content, outcome) ==
    LET config == ReadCollections(content)
    IN  IF config.threw
        THEN Outcome(a, ls, d, Note("Error importing config", "error"))
        ELSE SaveAndRender([a EXCEPT !.topwear      = config.topwear,
                                     !.bottomwear   = config.bottomwear,
                                     !.savedOutfits = config.savedOutfits],
                           ls, d, now, outcome,
                           Note("Wardrobe imported successfully!", "success"),
                           Note("Error importing config", "error"))

ImportWardrobe ==
    /\ loaded
    /\ \E content \in ImportFiles :
         IF ReadCollections(content).threw
         THEN LET r == importWardrobe(app, localStorage, dom, clock, content, "ok")
              IN  /\ app' = r.app
                  /\ localStorage' = r.slot
                  /\ dom' = r.dom
                  /\ UNCHANGED saved
         ELSE \E outcome \in Outcomes(saved) :
                LET r == importWardrobe(app, localStorage, dom, clock, content, outcome)
                IN  /\ app' = r.app
                    /\ localStorage' = r.slot
                    /\ dom' = r.dom
                    /\ saved' = AfterSave(outcome, saved)
    /\ UNCHANGED <<pending, clock, loaded>>

----------------------------------------------------------------------------
(* The program: every handler.                                             *)

Next ==
    \/ WindowLoad
    \/ Reload
    \/ Tick
    \/ StartAddItem
    \/ FinishAddItem
    \/ StartBulkImport
    \/ ContinueBulkImport
    \/ SelectTop
    \/ SelectBottom
    \/ ShuffleOutfit
    \/ LoadSavedOutfit
    \/ SaveOutfit
    \/ RemoveOutfit
    \/ ClearAllData
    \/ ImportWardrobe

Spec == Init /\ [][Next]_vars

\* sessions in which garments are added, one by one and in batches
NextItems ==
    \/ WindowLoad
    \/ Reload
    \/ Tick
    \/ StartAddItem
    \/ FinishAddItem
    \/ StartBulkImport
    \/ ContinueBulkImport

SpecItems == Init /\ [][NextItems]_vars

\* sessions over an imported wardrobe: selecting, saving and removing outfits
NextOutfits ==
    \/ WindowLoad
    \/ Reload
    \/ Tick
    \/ ImportWardrobe
    \/ SelectTop
    \/ SelectBottom
    \/ ShuffleOutfit
    \/ LoadSavedOutfit
    \/ SaveOutfit
    \/ RemoveOutfit
    \/ ClearAllData

SpecOutfits == Init /\ [][NextOutfits]_vars

\* one session in which the data is cleared while garments are being added
\* and selected
NextClear ==
    \/ WindowLoad
    \/ StartAddItem
    \/ FinishAddItem
    \/ StartBulkImport
    \/ ContinueBulkImport
    \/ SelectTop
    \/ SelectBottom
    \/ ShuffleOutfit
    \/ ClearAllData

SpecClear == Init /\ [][NextClear]_vars

----------------------------------------------------------------------------
(* Properties of the wardrobe, each checked in the specification that      *)
(* exercises the handlers it is about.                                     *)

\* the suspended runs of bulkImportImages and of addItem
BulkTasks == {k \in 1..Len(pending) : pending[k].op = "bulkImportImages"}
AddTasks  == {k \in 1..Len(pending) : pending[k].op = "addItem"}

\* the elements of a sequence
Range(s) == {s[i] : i \in 1..Len(s)}

\* no two garments of a sequence have the same id
DistinctIds(s) == \A i, j \in 1..Len(s) : i # j => s[i].id # s[j].id

\* sub occurs in s as a subsequence, in order
IsSubsequence(sub, s) ==
    \E f \in [1..Len(sub) -> 1..Len(s)] :
       /\ \A n \in 1..Len(sub) : s[f[n]] = sub[n]
       /\ \A n, m \in 1..Len(sub) : n < m => f[n] < f[m]

\* a suspended bulkImportImages has pushed a garment it has not saved yet
MidBatch == \E k \in BulkTasks : pending[k].successCount > 0

----------------------------------------------------------------------------
(* C1                                                                      *)

C1_UnparsedImportLeavesAllUntouched ==
    loaded =>
      \A content \in ImportFiles, outcome \in SaveOutcomes :
         ReadCollections(content).threw =>
            LET r == importWardrobe(app, localStorage, dom, clock, content, outcome)
            IN  r.app = app /\ r.slot = localStorage /\ r.note.type = "error"

----------------------------------------------------------------------------
(* C2                                                                      *)

\* C2: when the write inside saveToLocalStorage fails, the in-memory
\* aggregate is what it was immediately before the save attempt (for
\* saveOutfit and removeOutfit: the mutated aggregate, not the one before
\* the mutation) and the slot keeps its content; a save that succeeds makes
\* the slot's three collections equal to the in-memory ones, so that after
\* a failure the first later success ends the difference.
C2_FailedSaveKeepsMemoryAndSlot ==
    /\ \A outcome \in SaveOutcomes \ {"ok"} :
         /\ LET s == saveToLocalStorage(app, localStorage, clock, outcome)
            IN  s.app = app /\ s.slot = localStorage /\ s.note.type = "error"
         /\ ~(Falsy(app.selectedTop) \/ Falsy(app.selectedBottom)) =>
               LET r == saveOutfit(app, localStorage, dom, clock, outcome)
               IN  /\ r.app = [app EXCEPT !.savedOutfits =
                                  Append(@, [id |-> clock, top |-> app.selectedTop,
                                             bottom |-> app.selectedBottom])]
                   /\ r.slot = localStorage
         /\ \A c \in 1..Len(dom.savedOutfitsGrid) :
               LET r == removeOutfit(app, localStorage, dom, clock,
                                     dom.savedOutfitsGrid[c].id, outcome)
               IN  /\ r.app = [app EXCEPT !.savedOutfits =
                                  SelectSeq(@, LAMBDA o : o.id # dom.savedOutfitsGrid[c].id)]
                   /\ r.slot = localStorage
    /\ SlotCollections(saveToLocalStorage(app, localStorage, clock, "ok").slot)
          = Collections(app)
    /\ loaded /\ ~saved.failed /\ ~MidBatch => SlotCollections(localStorage) = Collections(app)

\* C2 witness: the most recent save failed and memory holds a mutation the
\* slot does not
C2_Witness ==
    /\ loaded
    /\ saved.failed
    /\ localStorage.present
    /\ SlotCollections(localStorage) # Collections(app)

----------------------------------------------------------------------------
(* C3                                                                      *)

\* C3 (as claimed): between steps, from the first load on, the slot's three
\* collections equal the in-memory ones unless the most recent save attempt
\* failed.
C3_SlotMirrorsMemory ==
    loaded /\ ~saved.failed => SlotCollections(localStorage) = Collections(app)

\* C3 (amended): between steps, from the first load on, the slot's three
\* collections equal the in-memory ones unless the most recent save attempt
\* failed or a bulkImportImages that has already pushed a garment is
\* suspended on the read of a later file: bulkImportImages pushes after
\* every read and saves once, after its loop.
C3_SlotMirrorsMemoryOutsideBatch ==
    loaded /\ ~saved.failed /\ ~MidBatch => SlotCollections(localStorage) = Collections(app)

\* C3 witness: a handler is suspended on a file read over a wardrobe that an
\* earlier, completed handler has populated and saved
C3_Witness ==
    /\ loaded
    /\ ~saved.failed
    /\ ~MidBatch
    /\ pending # <<>>
    /\ Len(app.topwear) + Len(app.bottomwear) > 0
    /\ localStorage.present

----------------------------------------------------------------------------
(* C4                                                                      *)

\* C4: saving the wardrobe successfully and loading the slot in a fresh
\* session gives three collections equal to the saved ones, elements and
\* order; loadFromLocalStorage with no slot returns false and leaves the
\* aggregate as it is; the load handler leaves the slot as it is.
C4_SaveThenLoadRestores ==
    /\ [](/\ LET s == saveToLocalStorage(app, localStorage, clock, "ok")
                 l == loadFromLocalStorage(EmptyApp, s.slot)
             IN  l.ret = TRUE /\ Collections(l.app) = Collections(app)
          /\ LET n == loadFromLocalStorage(app, NoSlot)
             IN  n.ret = FALSE /\ n.app = app
          /\ ~loaded /\ localStorage.present =>
                LET l == loadFromLocalStorage(app, localStorage)
                IN  l.ret = TRUE /\ Collections(l.app) = SlotCollections(localStorage))
    /\ [][WindowLoad => localStorage' = localStorage]_vars

\* C4 witness: a fresh session, not yet loaded, over a slot that holds the
\* garments and outfits an earlier session saved
C4_Witness ==
    /\ ~loaded
    /\ localStorage.present
    /\ Len(SlotCollections(localStorage).topwear) > 0
    /\ Len(SlotCollections(localStorage).savedOutfits) > 0

----------------------------------------------------------------------------
(* C5                                                                      *)

\* C5 (as claimed): in every reachable state no two garments of topwear, and
\* no two garments of bottomwear, have the same id.
C5_GarmentIdsUnique ==
    DistinctIds(app.topwear) /\ DistinctIds(app.bottomwear)

\* C5 (amended): the garments created by one bulkImportImages batch have
\* pairwise different ids: those it has pushed so far have, and the garment
\* it pushes when its pending read completes gets an id none of them has.
\* Garments of different runs are not covered: their ids can coincide.
C5_BatchIdsDistinct ==
    \A k \in BulkTasks :
       /\ DistinctIds(pending[k].made)
       /\ \A seg \in Segments(pending[k].n - pending[k].i) :
             DistinctIds(bulkLoop(app, pending[k], TRUE, seg, clock).task.made)

\* C5 witness: a batch that has pushed a garment is about to push the next
C5_Witness ==
    \E k \in BulkTasks : Len(pending[k].made) > 0 /\ pending[k].file # NoFile

----------------------------------------------------------------------------
(* C6                                                                      *)

\* C6 (as claimed): from every state with a complete selection, saveOutfit
\* followed by removeOutfit of the new outfit's id leaves savedOutfits with
\* the length it had before the two calls.
C6_SaveThenRemoveRestoresLength ==
    loaded /\ ~(Falsy(app.selectedTop) \/ Falsy(app.selectedBottom)) =>
       LET s == saveOutfit(app, localStorage, dom, clock, "ok")
           newId == s.app.savedOutfits[Len(s.app.savedOutfits)].id
           r == removeOutfit(s.app, s.slot, s.dom, clock, newId, "ok")
       IN  Len(r.app.savedOutfits) = Len(app.savedOutfits)

\* C6 (the part that holds): removeOutfit(id) removes every outfit whose id
\* is id and keeps the others in their order; with an id no outfit has it
\* leaves savedOutfits as it is.
C6_RemoveKeepsOtherOutfits ==
    loaded =>
      \A outfitId \in -1..(MaxClock + 1), outcome \in SaveOutcomes :
         LET r == removeOutfit(app, localStorage, dom, clock, outfitId, outcome)
             kept == {n \in 1..Len(app.savedOutfits) : app.savedOutfits[n].id # outfitId}
         IN  /\ IsSubsequence(r.app.savedOutfits, app.savedOutfits)
             /\ Len(r.app.savedOutfits) = Cardinality(kept)
             /\ \A n \in 1..Len(r.app.savedOutfits) : r.app.savedOutfits[n].id # outfitId
             /\ OutfitsWithId(app, outfitId) = {} => r.app = app

----------------------------------------------------------------------------
(* C7                                                                      *)

\* C7: saveOutfit with selectedTop or selectedBottom empty leaves the
\* aggregate and the slot as they are; with both selections non-empty it
\* appends to the end of savedOutfits exactly one outfit, whose top and
\* bottom are the current selections; and every outfit that a saveOutfit of
\* the session has built (their ids are clock values) has a top and a bottom.
C7_SaveOutfitNeedsCompleteSelection ==
    /\ \A outcome \in SaveOutcomes :
         LET r == saveOutfit(app, localStorage, dom, clock, outcome)
         IN  IF app.selectedTop = Null \/ app.selectedBottom = Null
             THEN r.app = app /\ r.slot = localStorage
             ELSE /\ Len(r.app.savedOutfits) = Len(app.savedOutfits) + 1
                  /\ SubSeq(r.app.savedOutfits, 1, Len(app.savedOutfits)) = app.savedOutfits
                  /\ r.app.savedOutfits[Len(r.app.savedOutfits)].top = app.selectedTop
                  /\ r.app.savedOutfits[Len(r.app.savedOutfits)].bottom = app.selectedBottom
                  /\ [r.app EXCEPT !.savedOutfits = app.savedOutfits] = app
    /\ \A n \in 1..Len(app.savedOutfits) :
         app.savedOutfits[n].id >= 1 =>
            app.savedOutfits[n].top # Null /\ app.savedOutfits[n].bottom # Null

\* C7 witness: savedOutfits holds an outfit that saveOutfit built in this
\* model (imported outfits have ids below 1), and one selection is empty
C7_Witness ==
    /\ \E n \in 1..Len(app.savedOutfits) : app.savedOutfits[n].id >= 1
    /\ app.selectedTop # Null
    /\ app.selectedBottom = Null

----------------------------------------------------------------------------
(* C8                                                                      *)

\* what C8 states of one run of the loop (from a resumption, or from the
\* start, to the next suspension or the end of the handler): the counters
\* add up to the files gone through; a file read successfully is pushed at
\* the end of the chosen category and nothing else changes; at the end the
\* toast reports as succeeded the garments pushed and as failed all the
\* other files of the selection
BulkRunCounts(t, read, seg) ==
    LET b == bulkLoop(app, t, read, seg, clock)
        pushed == t.i > 0 /\ read
    IN  /\ b.successCount = Len(b.task.made)
        /\ b.successCount + b.failCount = (IF b.suspends THEN b.task.i - 1 ELSE t.n)
        /\ Target(b.app, t.category) =
              (IF pushed THEN Append(Target(app, t.category), bulkGarment(t.file, t.i, clock))
               ELSE Target(app, t.category))
        /\ Other(b.app, t.category) = Other(app, t.category)
        /\ b.task.made = (IF pushed THEN Append(t.made, bulkGarment(t.file, t.i, clock))
                          ELSE t.made)
        /\ b.suspends => validateImageFile(b.task.file)
        /\ ~b.suspends =>
              \A outcome \in SaveOutcomes :
                 LET r == bulkFinish(b, localStorage, dom, clock, outcome)
                 IN  /\ r.note.type = "success"
                     /\ r.note.succeeded = Len(b.task.made)
                     /\ r.note.failed = t.n - Len(b.task.made)
                     /\ r.app = b.app

\* C8: bulkImportImages over N files of which K fail validation or reading
\* pushes N - K garments onto the chosen category, in file order, none onto
\* the other category, and reports succeeded = N - K and failed = K; a file
\* that fails does not keep the files after it from being gone through.
C8_BulkImportCounts ==
    /\ \A k \in BulkTasks :
         /\ pending[k].successCount = Len(pending[k].made)
         /\ pending[k].successCount + pending[k].failCount = pending[k].i - 1
         /\ pending[k].i <= pending[k].n
         /\ ~pending[k].preClear =>
               IsSubsequence(pending[k].made, Target(app, pending[k].category))
         /\ \A read \in BOOLEAN, seg \in Segments(pending[k].n - pending[k].i) :
               BulkRunCounts(pending[k], read, seg)
    /\ \A n \in 1..MaxFiles, category \in Categories :
       \A seg \in Segments(n) :
         BulkRunCounts(Task("bulkImportImages", category, NoFile, n, 0, 0, 0,
                            NoForm, <<>>, FALSE),
                       FALSE, seg)

\* C8 witness: the first file of a selection has failed and the batch is
\* reading the second
C8_Witness ==
    \E k \in BulkTasks :
       /\ pending[k].failCount > 0
       /\ pending[k].i > 1
       /\ validateImageFile(pending[k].file)

----------------------------------------------------------------------------
(* C9                                                                      *)

\* C9: a step of shuffleOutfit over at least one top and one bottom sets
\* selectedTop to an element of topwear and selectedBottom to an element of
\* bottomwear, both in that one step; over an empty topwear or bottomwear it
\* leaves both selections; in both cases the three collections and the slot
\* stay as they are.
C9_ShuffleSetsBothSelections ==
    [][ShuffleOutfit =>
         /\ Collections(app') = Collections(app)
         /\ localStorage' = localStorage
         /\ IF Len(app.topwear) = 0 \/ Len(app.bottomwear) = 0
            THEN app' = app
            ELSE /\ \E i \in 1..Len(app.topwear), j \in 1..Len(app.bottomwear) :
                       /\ app'.selectedTop = app.topwear[i]
                       /\ app'.selectedBottom = app.bottomwear[j]
                 /\ \A i \in 1..Len(app.topwear), j \in 1..Len(app.bottomwear) :
                       /\ shuffleOutfit(app, i, j).selectedTop = app.topwear[i]
                       /\ shuffleOutfit(app, i, j).selectedBottom = app.bottomwear[j]]_vars

\* C9 witness: both selections are garments of the collections and no
\* saved outfit or thumbnail click is needed to have them: the state a
\* shuffle over a non-empty wardrobe ends in
C9_Witness ==
    /\ loaded
    /\ Len(app.topwear) > 1
    /\ app.selectedTop = app.topwear[2]
    /\ app.selectedBottom \in Range(app.bottomwear)

----------------------------------------------------------------------------
(* C10                                                                     *)

\* what a resumed handler leaves of the wardrobe: the runs pending entry k
\* can make when its read settles
Resumptions(k) ==
    IF pending[k].op = "addItem"
    THEN {[app  |-> addItemResume(app, localStorage, dom, clock, pending[k], read, outcome).app,
           slot |-> addItemResume(app, localStorage, dom, clock, pending[k], read, outcome).slot] :
             read \in BOOLEAN, outcome \in SaveOutcomes}
    ELSE UNION {
           LET b == bulkLoop(app, pending[k], read, seg, clock)
           IN  IF b.suspends
               THEN {[app |-> b.app, slot |-> localStorage]}
               ELSE {[app  |-> bulkFinish(b, localStorage, dom, clock, outcome).app,
                      slot |-> bulkFinish(b, localStorage, dom, clock, outcome).slot] :
                        outcome \in SaveOutcomes} :
           read \in BOOLEAN, seg \in Segments(pending[k].n - pending[k].i)}

\* C10 (as claimed): a handler that was suspended on a file read when a
\* clearAllData was confirmed neither puts a garment into the collections
\* nor writes the slot when it resumes.
C10_SuspendedHandlerLeavesClearedData ==
    \A k \in 1..Len(pending) :
       pending[k].preClear =>
          \A r \in Resumptions(k) :
             Collections(r.app) = Collections(app) /\ r.slot = localStorage

\* C10 (amended): a declined clearAllData changes nothing; a confirmed one
\* ends with the slot absent, the three collections empty and both
\* selections none, and leaves the suspended handlers suspended; such a
\* handler is not cancelled: when its read succeeds it pushes its garment
\* onto the collection as it then is, and the save that ends it writes the
\* slot again.
C10_ClearEmptiesButDoesNotCancel ==
    /\ [][ClearAllData =>
            \/ UNCHANGED <<app, localStorage, dom, pending>>
            \/ /\ localStorage' = NoSlot
               /\ Collections(app') = NoCollections
               /\ app'.selectedTop = Null /\ app'.selectedBottom = Null
               /\ Len(pending') = Len(pending)]_vars
    /\ [](/\ LET r == clearAllData(app, localStorage, dom, FALSE)
             IN  r.app = app /\ r.slot = localStorage /\ r.dom = dom
          /\ LET r == clearAllData(app, localStorage, dom, TRUE)
             IN  r.app = EmptyApp /\ r.slot = NoSlot /\ r.dom = EmptyDom
          /\ \A k \in AddTasks :
                pending[k].preClear =>
                   LET r == addItemResume(app, localStorage, dom, clock, pending[k],
                                          TRUE, "ok")
                   IN  /\ Len(Target(r.app, pending[k].category))
                             = Len(Target(app, pending[k].category)) + 1
                       /\ r.slot.present
                       /\ SlotCollections(r.slot) = Collections(r.app)
          /\ \A k \in BulkTasks :
                pending[k].preClear =>
                   \A seg \in Segments(pending[k].n - pending[k].i) :
                      LET b == bulkLoop(app, pending[k], TRUE, seg, clock)
                      IN  /\ Len(Target(b.app, pending[k].category))
                                = Len(Target(app, pending[k].category)) + 1
                          /\ ~b.suspends =>
                                bulkFinish(b, localStorage, dom, clock, "ok").slot.present)

\* C10 witness: after a confirmed clearAllData, with no handler started
\* since, a collection holds a garment again: the batch that was suspended
\* has pushed it and is reading its next file
C10_Witness ==
    /\ Len(pending) = 1
    /\ \E k \in BulkTasks :
          /\ pending[k].preClear
          /\ Len(Target(app, pending[k].category)) > 0
          /\ app.selectedTop = Null

----------------------------------------------------------------------------
(* C11                                                                     *)

\* the tops and the bottoms of the outfits currently in savedOutfits
OutfitTops(a)    == {a.savedOutfits[n].top : n \in 1..Len(a.savedOutfits)}
OutfitBottoms(a) == {a.savedOutfits[n].bottom : n \in 1..Len(a.savedOutfits)}

\* C11 (as claimed): in every reachable state a non-empty selectedTop is a
\* garment currently in topwear or the top of an outfit currently in
\* savedOutfits, and a non-empty selectedBottom is a garment currently in
\* bottomwear or the bottom of an outfit currently in savedOutfits.
C11_SelectionIsCurrentMember ==
    /\ app.selectedTop # Null =>
          app.selectedTop \in Range(app.topwear) \cup OutfitTops(app)
    /\ app.selectedBottom # Null =>
          app.selectedBottom \in Range(app.bottomwear) \cup OutfitBottoms(app)

\* C11 (the part that holds): a step of shuffleOutfit, loadSavedOutfit or
\* clearAllData that changes a selection sets it to none or to a garment
\* that is in the collection, or in an outfit of savedOutfits, after that
\* step; steps of importWardrobe and removeOutfit leave both selections as
\* they are, whatever they do to the collections.
C11_SelectionSetToCurrentMember ==
    [][/\ ShuffleOutfit \/ LoadSavedOutfit \/ ClearAllData =>
             /\ app'.selectedTop # app.selectedTop =>
                   \/ app'.selectedTop = Null
                   \/ app'.selectedTop \in Range(app'.topwear) \cup OutfitTops(app')
             /\ app'.selectedBottom # app.selectedBottom =>
                   \/ app'.selectedBottom = Null
                   \/ app'.selectedBottom \in Range(app'.bottomwear) \cup OutfitBottoms(app')
       /\ ImportWardrobe \/ RemoveOutfit =>
             /\ app'.selectedTop = app.selectedTop
             /\ app'.selectedBottom = app.selectedBottom]_vars

\* C11 witness: a garment is selected and the three collections are empty
C11_Witness ==
    /\ loaded
    /\ app.selectedTop # Null
    /\ Collections(app) = NoCollections

====
